---------------------------- MODULE Spec2Model ----------------------------
(***************************************************************************)
(* Model of the OAuth 2.1 authorization-code-with-PKCE harness scripts of  *)
(* syphon1c/ai-security-gateway:                                           *)
(*   "llm"     = examples/oauth-proxy-tests/test_oauth_proxy_gateway_llm.py*)
(*   "example" = examples/oauth-proxy-examples/python/oauth_proxy_test.py  *)
(* One behaviour is one run of one script's main().  The main thread is    *)
(* split into steps wherever the callback listener thread can interleave   *)
(* with it (between the start of the callback server and its shutdown).    *)
(***************************************************************************)
EXTENDS Integers, Sequences, FiniteSets, TLC

(* ------------------------------ bounds -------------------------------- *)

\* Number of 0.5 s polling intervals that make up the 300 s timeout of
\* wait_for_callback (600 in the program; scaled down for checking).
TimeoutTicks == 2

\* Largest number of HTTP requests the listener handles in one run.
MaxRequests == 2

\* Largest number of calls of test_authorization in one process.
MaxFlows == 2

\* Largest number of calls of shutdown() on one server.
MaxShutdowns == 2

(* --------------------------- value domains ---------------------------- *)

\* Python's None.
None == "None"

\* The literal of lines 203, 237, 557 ("llm") and 295, 326, 362 ("example").
CALLBACK_URI == "http://localhost:8888/callback"

\* The second literal of line 203.
CURSOR_URI == "cursor://oauth-callback"

Scripts == {"llm", "example"}

\* Values the `code`, `state` and `error` query parameters can carry.
\* parse_qs drops blank values, so an absent and an empty parameter are
\* both None after lines 111-113.
Codes == {"A", "B"}
States == {"s1", "s2"}
Errors == {"access_denied"}

\* str.strip() on the strings the operator supplies (command-line
\* arguments, answers typed at a prompt).
Strip(a) ==
    CASE a = " " -> ""
      [] a = " M " -> "M"
      [] OTHER -> a

\* Python truthiness of an optional string.
Truthy(x) == x /= None /\ x /= ""

\* d.get(k) on a JSON object modelled as a function from the keys present.
Get(d, k) == IF k \in DOMAIN d THEN d[k] ELSE None

Restrict(f, K) == [k \in K |-> f[k]]

\* The JSON object {} (no key present).
EmptyObject == [k \in {} |-> None]

\* A callback request as parsed by lines 107-113.
Requests ==
    [code : Codes \cup {None}, state : States \cup {None}, error : Errors \cup {None}]

\* redirect_uris lists a registration response can carry when it has the
\* key: the list of line 203 echoed, or the same URIs in the other order.
RedirectLists ==
    { <<CALLBACK_URI, CURSOR_URI>>, <<CURSOR_URI, CALLBACK_URI>> }

\* JSON bodies of a registration response as "llm" reads it: any subset of
\* the keys read at lines 555-557.  The function with the empty domain is
\* the empty object {}.
LlmRegBodies ==
    { Restrict(full, K) :
        full \in [client_id : {"c1"}, client_secret : {"x1"}, redirect_uris : RedirectLists],
        K \in SUBSET {"client_id", "client_secret", "redirect_uris"} }

\* The same for "example", which reads client_id, client_secret and the
\* endpoint URLs (lines 304-307); token_url is the one it sends a request to.
ExampleRegBodies ==
    { Restrict([client_id |-> "c1", client_secret |-> "x1", token_url |-> "token_ep"], K) :
        K \in SUBSET {"client_id", "client_secret", "token_url"} }

\* What make_request does for the registration call: an HTTP answer
\* (status, parsed body); urlopen raising URLError, which neither script
\* catches ("neterr"); or a server that accepts the connection and never
\* answers ("silent").
RegResponses(bodies) ==
    [kind : {"http"}, status : {200, 201, 400}, body : bodies]
        \cup { [kind |-> k, status |-> 0, body |-> EmptyObject] : k \in {"neterr", "silent"} }

\* JSON bodies of a token response: any subset of these two keys.
TokenBodies ==
    { Restrict([access_token |-> "tok", token_type |-> "Bearer"], K) :
        K \in SUBSET {"access_token", "token_type"} }

TokenResponses ==
    [kind : {"http"}, status : {200, 400}, body : TokenBodies]
        \cup { [kind |-> k, status |-> 0, body |-> EmptyObject] : k \in {"neterr", "silent"} }

ProbeResponses ==
    [kind : {"http"}, status : {200, 401}]
        \cup { [kind |-> k, status |-> 0] : k \in {"neterr", "silent"} }

NoProbe == [kind |-> "none", status |-> 0]

\* The value wait_for_callback returns: None, or the tuple of line 184.
NoResult == [tuple |-> FALSE, code |-> None, state |-> None]
Tuple(c, s) == [tuple |-> TRUE, code |-> c, state |-> s]

NoRequest == [code |-> None, state |-> None, error |-> None]

\* What the listener did with a request: whether it carried a code and an
\* error parameter (lines 111-115, 133), and the page sent back: "error"
\* (lines 116-129), "success" (138-152), "failure" (154-166), or "none"
\* while no page has been sent.
Answer(r, page) == [code |-> Truthy(r.code), error |-> Truthy(r.error), page |-> page]
NoAnswer == [code |-> FALSE, error |-> FALSE, page |-> "none"]
NoSent == [sent |-> FALSE]

(* -------------------------------- PKCE -------------------------------- *)

\* Strings that are encoded or decoded are sequences of one-character
\* strings; byte strings are sequences of numbers in 0..255.

\* The number of random bytes behind a verifier: secrets.token_bytes(32).
VerifierBytes == 32

\* Byte values the random source is sampled at (251 and 255 produce the
\* sextets 62 and 63, where the URL-safe alphabet differs from the
\* standard one).
ByteSamples == {0, 77, 251, 255}

\* secrets.token_bytes(32): any 32 bytes.  The model draws the byte
\* strings that repeat a two-byte seed.
TokenBytes(seed) == [i \in 1..VerifierBytes |-> seed[((i - 1) % 2) + 1]]

\* The alphabet of base64.b64encode, by sextet value + 1.
StandardAlphabet ==
    << "A", "B", "C", "D", "E", "F", "G", "H", "I", "J", "K", "L", "M",
       "N", "O", "P", "Q", "R", "S", "T", "U", "V", "W", "X", "Y", "Z",
       "a", "b", "c", "d", "e", "f", "g", "h", "i", "j", "k", "l", "m",
       "n", "o", "p", "q", "r", "s", "t", "u", "v", "w", "x", "y", "z",
       "0", "1", "2", "3", "4", "5", "6", "7", "8", "9", "+", "/" >>

\* Mutant of UrlsafeTranslate: the standard alphabet is kept.
UrlsafeTranslateNone(ch) == ch

\* The translation urlsafe_b64encode applies to the output of b64encode.
UrlsafeTranslate(ch) ==
    IF ch = "+" THEN "-" ELSE IF ch = "/" THEN "_" ELSE ch

\* One group of one, two or three bytes as b64encode writes it: four
\* characters, "=" standing for the missing bytes.
EncodeGroup(g) ==
    LET n  == Len(g)
        b1 == g[1]
        b2 == IF n >= 2 THEN g[2] ELSE 0
        b3 == IF n >= 3 THEN g[3] ELSE 0
    IN  << StandardAlphabet[(b1 \div 4) + 1],
           StandardAlphabet[((b1 % 4) * 16 + (b2 \div 16)) + 1],
           IF n >= 2 THEN StandardAlphabet[((b2 % 16) * 4 + (b3 \div 64)) + 1] ELSE "=",
           IF n >= 3 THEN StandardAlphabet[(b3 % 64) + 1] ELSE "=" >>

RECURSIVE b64encode(_)
b64encode(bs) ==
    IF bs = << >> THEN << >>
    ELSE IF Len(bs) <= 3 THEN EncodeGroup(bs)
    ELSE EncodeGroup(SubSeq(bs, 1, 3)) \o b64encode(SubSeq(bs, 4, Len(bs)))

\* base64.urlsafe_b64encode(bs).decode('utf-8')
urlsafe_b64encode(bs) ==
    LET std == b64encode(bs) IN [i \in 1..Len(std) |-> UrlsafeTranslate(std[i])]

\* Mutant of rstrip: the padding is kept.
rstripNothing(s) == s

\* s.rstrip('=')
rstrip(s) ==
    LET keep == {i \in 1..Len(s) : s[i] /= "="}
    IN  IF keep = {} THEN << >>
        ELSE SubSeq(s, 1, CHOOSE i \in keep : \A j \in keep : j <= i)

\* ord() of a character base64 can produce.
Ord(ch) ==
    IF ch = "=" THEN 61 ELSE IF ch = "-" THEN 45 ELSE IF ch = "_" THEN 95
    ELSE LET i == CHOOSE k \in 1..64 : StandardAlphabet[k] = ch
         IN  IF i <= 26 THEN 64 + i
             ELSE IF i <= 52 THEN 96 + (i - 26)
             ELSE IF i <= 62 THEN 47 + (i - 52)
             ELSE IF i = 63 THEN 43 ELSE 47

\* s.encode('utf-8') of an ASCII string.
encode(s) == [i \in 1..Len(s) |-> Ord(s[i])]

RECURSIVE WeightedSum(_, _, _)
WeightedSum(m, i, j) ==
    IF j = 0 THEN 0 ELSE ((i + j) * m[j] + WeightedSum(m, i, j - 1)) % 256

\* hashlib.sha256(m).digest(): 32 bytes that depend on every byte of m.
\* SHA-256 itself is library code; this function of the same type stands
\* for it wherever a digest is taken.
sha256(m) == [i \in 1..32 |-> (WeightedSum(m, i, Len(m)) + 7 * i) % 256]

\* generate_pkce, given the bytes the random source returns.
generate_pkce(random) ==
    LET verifier  == rstrip(urlsafe_b64encode(random))
        challenge == rstrip(urlsafe_b64encode(sha256(encode(verifier))))
    IN  [verifier |-> verifier, challenge |-> challenge, method |-> "S256"]

\* Seeds of the random byte strings the model draws.
PkceSeeds == [1..2 -> ByteSamples]

\* generate_pkce tabulated over the random byte strings the model draws:
\* what a call returns when the random source returns `random`.
PkceTable == [random \in { TokenBytes(s) : s \in PkceSeeds } |-> generate_pkce(random)]

\* No PKCE triple generated yet: the two strings are empty character
\* sequences, as verifier and challenge are sequences of characters.
NoPkce == [verifier |-> << >>, challenge |-> << >>, method |-> None]

\* Values of the --scope argument: absent or empty, blanks only, a scope.
ScopeArgs == {"", " ", "read"}

(* ------------------------------- state -------------------------------- *)

VARIABLES
    script,          \* which harness script runs
    api_key,         \* args.api_key or GATEWAY_API_KEY (line 528)
    scope,           \* args.scope
    entropy,         \* the bytes secrets.token_bytes(32) returns in generate_pkce
    reg_request,     \* JSON payload sent to the registration endpoint
    pkce,            \* the triple generate_pkce returned
    authorize_response, \* mcp_oauth_example.py: what the authorize request got
    pasted,          \* mcp_oauth_example.py: what the operator pasted at line 78
    session_token,   \* mcp_oauth_example.py: what get_oauth_token returned
    mcp_requests,    \* mcp_oauth_example.py: the MCP requests sent, in order
    pc,              \* position of the main thread
    flow,            \* which call of test_authorization in this process (from 1)
    exit_code,       \* process exit status once the run has ended, else -1
    reg_response,    \* what make_request returned for the registration call
    client_id, client_secret, redirect_uri,   \* main's locals after registration
    state,           \* the state value generated by test_authorization (line 238)
    auth_request,    \* parameters of the authorization URL that was built
    server,          \* "none" | "failed" | "serving" | "stopping" | "stopped"
    socket_bound,    \* the listening socket of the HTTPServer is bound
    shutdowns,       \* calls of server.shutdown() that have returned
    received_code, received_state,            \* CallbackHandler class attributes
    lpc,             \* listener thread: "idle", or "store_state" between lines 135 and 136
    req,             \* the request the listener is handling
    handled,         \* requests the listener has handled
    answer,          \* the last request the listener took and the page it was sent
    elapsed,         \* polling intervals slept in wait_for_callback
    read_code,       \* first element of the tuple of line 184, once evaluated
    result,          \* return value of wait_for_callback
    auth_code,       \* return value of test_authorization / input of "example"
    auth_outcome,    \* how test_authorization ended
    token_request,   \* form fields sent to the token endpoint
    token_response,  \* what make_request returned for the token call
    reported_complete, \* "Token exchange successful" path taken to the end
    oauth_success, api_key_success,
    oauth_probe, api_key_probe,   \* what make_request did in each probe
    stages,          \* the stages invoked so far, in order
    \* history variables used to state properties
    handled_pairs,     \* (code, state) of every code callback the listener handled
    error_in_wait,     \* an error callback was handled while the orchestrator waited
    manual_entries     \* times manual-entry mode was entered

vars ==
    << script, api_key, scope, entropy, reg_request, pkce, authorize_response,
       pasted, session_token, mcp_requests, pc, flow, shutdowns, exit_code, reg_response, client_id,
       client_secret,
       redirect_uri, state, auth_request, server, socket_bound, received_code,
       received_state, lpc, req, handled, answer, elapsed, read_code, result, auth_code,
       auth_outcome, token_request, token_response, reported_complete,
       oauth_success, api_key_success, oauth_probe, api_key_probe, stages,
       handled_pairs, error_in_wait, manual_entries >>

\* Groups of variables, for the frame conditions.
cfgVars == << script, api_key, scope, entropy >>
callVars == << flow, shutdowns >>
regVars == << reg_request, reg_response, client_id, client_secret, redirect_uri >>
pkceVars == << pkce >>
mcpVars == << authorize_response, pasted, session_token, mcp_requests >>
authVars == << state, auth_request, auth_code, auth_outcome, manual_entries >>
srvVars == << server, socket_bound >>
slotVars == << received_code, received_state >>
lsnVars == << lpc, req, handled, answer, handled_pairs, error_in_wait >>
waitVars == << elapsed, read_code, result >>
tokVars == << token_request, token_response, reported_complete >>
probeVars == << oauth_success, api_key_success, oauth_probe, api_key_probe >>

\* Everything test_authorization and the rest of main work on, before
\* test_authorization is called.
NothingAuthorizedYet ==
    /\ flow = 1
    /\ shutdowns = 0
    /\ exit_code = -1
    /\ state = None
    /\ auth_request = NoSent
    /\ server = "none"
    /\ socket_bound = FALSE
    /\ received_code = None /\ received_state = None
    /\ lpc = "idle" /\ req = NoRequest /\ handled = 0
    /\ answer = NoAnswer
    /\ elapsed = 0
    /\ read_code = None
    /\ result = NoResult
    /\ auth_code = None
    /\ auth_outcome = "none"
    /\ token_request = NoSent
    /\ token_response = [kind |-> "none", status |-> 0, body |-> EmptyObject]
    /\ reported_complete = FALSE
    /\ oauth_success = FALSE /\ api_key_success = FALSE
    /\ oauth_probe = NoProbe /\ api_key_probe = NoProbe
    /\ handled_pairs = {}
    /\ error_in_wait = FALSE
    /\ manual_entries = 0

\* mcp_oauth_example.py: no authorize request made yet.
NoAuthorize == [kind |-> "none", status |-> 0, json |-> "none", body |-> EmptyObject]

\* Nothing pasted; also the value of session_token before get_oauth_token
\* has returned.
NoPaste == [blank |-> TRUE, eyJ |-> FALSE, parts |-> 0, padding_ok |-> FALSE, payload |-> "none"]

\* mcp_oauth_example.py has not run: the state its variables keep in the
\* runs of the two harness scripts.
McpNotRun ==
    /\ authorize_response = NoAuthorize
    /\ pasted = NoPaste
    /\ session_token = NoPaste
    /\ mcp_requests = << >>

\* Inputs of the runs that go through the whole flow: one scope and one
\* random byte string (RequestInit draws the others).
RunScopes == {"read"}
RunEntropy == { TokenBytes(<< 251, 255 >>) }

\* The start of main, given the values --scope and the random source can
\* take: the script and its --api-key input ("example" has none).
Start(scopes, randoms) ==
    /\ script \in Scripts
    /\ api_key \in {"", "k"}
    /\ (script = "example" => api_key = "")
    /\ scope \in scopes
    /\ entropy \in randoms
    /\ reg_request = NoSent
    /\ pkce = NoPkce
    /\ McpNotRun
    /\ pc = "dcr"
    /\ reg_response = [kind |-> "none", status |-> 0, body |-> EmptyObject]
    /\ client_id = None /\ client_secret = None /\ redirect_uri = None
    /\ stages = << >>
    /\ NothingAuthorizedYet

Init == Start(RunScopes, RunEntropy)

(* ------------------- decisions taken by the scripts ------------------- *)

\* test_dcr returns the response (not None): line 223.
DcrReturnsResponse(resp) == resp.kind = "http" /\ resp.status \in {200, 201}

\* register_client returns the response (not None): line 152 of "example".
RegisterClientReturnsResponse(resp) == resp.kind = "http" /\ resp.status \in {200, 201}

\* main of "llm" goes on after registration: `if not dcr_response` (551)
\* and `if not client_id or not client_secret` (559).
LlmAcceptsRegistration(resp) ==
    /\ DcrReturnsResponse(resp)
    /\ DOMAIN resp.body /= {}
    /\ Truthy(Get(resp.body, "client_id"))
    /\ Truthy(Get(resp.body, "client_secret"))

\* main of "example" goes on after registration: only `if not client` (300).
ExampleAcceptsRegistration(resp) ==
    /\ RegisterClientReturnsResponse(resp)
    /\ DOMAIN resp.body /= {}

\* The redirect_uri main of "llm" keeps for the token exchange: line 557.
TokenRedirectUri(body) ==
    IF "redirect_uris" \in DOMAIN body /\ Len(body["redirect_uris"]) > 0
    THEN body["redirect_uris"][1]
    ELSE CALLBACK_URI

\* The redirect_uri test_authorization puts into the authorization URL: line 237.
AuthorizationRedirectUri == CALLBACK_URI

\* Mutant of LoopContinues: a loop that has lost its deadline.
LoopContinuesForever(e) == TRUE

\* The loop condition of wait_for_callback: line 182.
LoopContinues(e) == e < TimeoutTicks

\* The test of line 183.
CodeReceived(c) == Truthy(c)

\* test_token_exchange returns the response (not None): line 355.
TokenExchangeReturnsResponse(resp) == resp.kind = "http" /\ resp.status = 200

\* main of "llm" goes on to the probes: lines 584 and 589.
LlmAcceptsToken(resp) ==
    /\ TokenExchangeReturnsResponse(resp)
    /\ DOMAIN resp.body /= {}
    /\ Truthy(Get(resp.body, "access_token"))

\* main of "example" reports "OAuth Flow Complete!": lines 266 and 366.
ExampleAcceptsToken(resp) ==
    /\ resp.kind = "http" /\ resp.status = 200
    /\ DOMAIN resp.body /= {}

(* --------------------- main thread of "llm": main --------------------- *)

Exit(code) == pc' = "exit" /\ exit_code' = code

\* An exception nobody catches ends the process with a traceback, status 1.
Crash == pc' = "crashed" /\ exit_code' = 1

\* urlopen(req) is called without a timeout (line 84; line 62 of "example")
\* and no default socket timeout is set: when no answer comes the call does
\* not return.
Blocked == pc' = "in_urlopen" /\ UNCHANGED exit_code

\* make_request raises: urlopen's URLError is not an HTTPError (line 91;
\* line 65 of "example").
Raises(resp) == resp.kind = "neterr"

\* make_request never returns.
NeverReturns(resp) == resp.kind = "silent"

(* ------------------- requests the scripts build ----------------------- *)

\* main's local `scope` of "llm" (line 543).
LlmScope(arg) == IF Truthy(arg) THEN Strip(arg) ELSE ""

\* Mutant of WithScope: the key is sent whatever the scope is.
WithScopeAlways(params, sc) == params @@ [scope |-> sc]

\* `if scope: payload["scope"] = scope` (lines 214-215) and the same on
\* the URL parameters (lines 250-251).
WithScope(params, sc) ==
    IF Truthy(sc) THEN params @@ [scope |-> sc] ELSE params

\* The same in "example": lines 146-147 and 210-211.
WithScopes(params, scopes) ==
    IF Truthy(scopes) THEN params @@ [scope |-> scopes] ELSE params

\* The payload of test_dcr (lines 203-215).
DcrPayload(sc) ==
    WithScope([sent |-> TRUE, redirect_uris |-> << CALLBACK_URI, CURSOR_URI >>], sc)

\* The payload of register_client (lines 138-147) as main calls it
\* (lines 292-298).
RegisterClientPayload(scopes) ==
    WithScopes([sent |-> TRUE, redirect_uris |-> << CALLBACK_URI >>], scopes)

\* The query parameters of the authorization URL: lines 240-251.
AuthorizationParams(cid, st, triple, sc) ==
    WithScope([sent |-> TRUE, client_id |-> cid,
               redirect_uri |-> AuthorizationRedirectUri, state |-> st,
               code_challenge |-> triple.challenge,
               code_challenge_method |-> triple.method], sc)

\* The same in build_authorization_url (lines 201-211) as main calls it
\* (lines 323-330).
BuildAuthorizationUrlParams(cid, st, challenge, method, scopes) ==
    WithScopes([sent |-> TRUE, client_id |-> cid,
                redirect_uri |-> CALLBACK_URI, state |-> st,
                code_challenge |-> challenge,
                code_challenge_method |-> method], scopes)

\* Mutant of VerifierSent: the challenge is sent in place of the verifier.
VerifierSentIsChallenge(triple) == triple.challenge

\* The code_verifier argument of the token exchange: line 583 of "llm",
\* line 363 of "example".
VerifierSent(triple) == triple.verifier

\* Lines 550-566: test_dcr, the two checks of main, the locals.  (The
\* health check of line 539 before it goes on whatever it finds.)
LlmRegister ==
    /\ script = "llm" /\ pc = "dcr"
    /\ reg_request' = DcrPayload(LlmScope(scope))
    /\ \E resp \in RegResponses(LlmRegBodies) :
        /\ reg_response' = resp
        /\ stages' = Append(stages, "registration")
        /\ IF Raises(resp)
           THEN /\ Crash
                /\ UNCHANGED << client_id, client_secret, redirect_uri, pkce >>
           ELSE IF NeverReturns(resp)
           THEN /\ Blocked
                /\ UNCHANGED << client_id, client_secret, redirect_uri, pkce >>
           ELSE IF LlmAcceptsRegistration(resp)
           THEN /\ client_id' = Get(resp.body, "client_id")
                /\ client_secret' = Get(resp.body, "client_secret")
                /\ redirect_uri' = TokenRedirectUri(resp.body)
                /\ pkce' = PkceTable[entropy]
                /\ pc' = "authorize"
                /\ UNCHANGED exit_code
           ELSE /\ Exit(1)
                /\ UNCHANGED << client_id, client_secret, redirect_uri, pkce >>
    /\ UNCHANGED << cfgVars, mcpVars, callVars, authVars, srvVars, slotVars, lsnVars, waitVars,
                    tokVars, probeVars >>

\* Lines 237-256 of test_authorization: fresh state, authorization URL.
BuildAuthorizationUrl ==
    /\ script = "llm" /\ pc = "authorize"
    /\ \E s \in States :
        /\ state' = s
        /\ auth_request' = AuthorizationParams(client_id, s, pkce, LlmScope(scope))
    /\ stages' = Append(stages, "authorization")
    /\ pc' = "start_server"
    /\ UNCHANGED << cfgVars, mcpVars, callVars, pkceVars, exit_code, regVars, auth_code, auth_outcome,
                    manual_entries, srvVars, slotVars, lsnVars, waitVars,
                    tokVars, probeVars >>

\* Lines 259-267 with start_callback_server (172-177): the HTTPServer
\* constructor binds and listens and the daemon thread runs serve_forever;
\* or the constructor raises (port in use) and server is None.  The port
\* is in use for certain while a socket of this process is bound to it.
StartCallbackServer ==
    /\ pc = "start_server"
    /\ \E ok \in BOOLEAN :
        IF ok /\ ~socket_bound
        THEN server' = "serving" /\ socket_bound' = TRUE
        ELSE server' = "failed" /\ UNCHANGED socket_bound
    /\ pc' = "reset_code"
    /\ UNCHANGED << cfgVars, mcpVars, callVars, pkceVars, exit_code, regVars, authVars, slotVars, lsnVars,
                    waitVars, tokVars, probeVars, stages >>

\* Mutant of ResetValue: the slot is left as the last flow left it.
ResetValueKept(old) == old

\* The value lines 270 and 271 assign, whatever the slot held.
ResetValue(old) == None

\* Line 270.
ResetReceivedCode ==
    /\ pc = "reset_code"
    /\ received_code' = ResetValue(received_code)
    /\ pc' = "reset_state"
    /\ UNCHANGED << cfgVars, mcpVars, callVars, pkceVars, exit_code, regVars, authVars, srvVars,
                    received_state, lsnVars, waitVars, tokVars, probeVars, stages >>

\* Line 271.
ResetReceivedState ==
    /\ pc = "reset_state"
    /\ received_state' = ResetValue(received_state)
    /\ pc' = "open_browser"
    /\ UNCHANGED << cfgVars, mcpVars, callVars, pkceVars, exit_code, regVars, authVars, srvVars,
                    received_code, lsnVars, waitVars, tokVars, probeVars, stages >>

\* Mutant of ServerAvailable: the wait is entered whatever the server is.
ServerAvailableAlways(s) == TRUE

\* The test `if server:` of line 285: start_callback_server returned a
\* server and not None.
ServerAvailable(s) == s = "serving"

\* What webbrowser.open(url) can do (line 276): open the URL and return
\* True, find no browser and return False, or raise.
BrowserOutcomes == {"opened", "not_opened", "raised"}

\* Lines 273-283: the try block.  An exception is caught and reported as
\* a warning (lines 279-281); a False result is not looked at.
OpenBrowser ==
    /\ pc = "open_browser"
    /\ \E outcome \in BrowserOutcomes :
        pc' = IF outcome = "raised" THEN "browser_warned" ELSE "browser_opened"
    /\ UNCHANGED << cfgVars, mcpVars, callVars, pkceVars, exit_code, regVars, authVars,
                    srvVars, slotVars, lsnVars, waitVars, tokVars, probeVars,
                    stages >>

\* Mutant of AfterBrowser: a failure to open the browser ends
\* test_authorization without a code.
AbortOnOpenFailure(at, s) ==
    IF at = "browser_warned" THEN "auth_returned"
    ELSE IF ServerAvailable(s) THEN "wait_loop" ELSE "manual"

\* Where test_authorization goes after the try block: `if server:`
\* (line 285) chooses the callback wait, else the manual entry of line 304.
AfterBrowser(at, s) == IF ServerAvailable(s) THEN "wait_loop" ELSE "manual"

\* Lines 283-290 and 304: the choice between the wait and manual entry.
\* Line 181 (start_time) starts the clock of the wait.
IfServer ==
    /\ pc \in {"browser_opened", "browser_warned"}
    /\ pc' = AfterBrowser(pc, server)
    /\ elapsed' = IF pc' = "wait_loop" THEN 0 ELSE elapsed
    /\ manual_entries' = IF pc' = "manual" THEN manual_entries + 1 ELSE manual_entries
    /\ UNCHANGED << cfgVars, mcpVars, callVars, pkceVars, exit_code, regVars, state, auth_request, auth_code,
                    auth_outcome, srvVars, slotVars, lsnVars, read_code, result,
                    tokVars, probeVars, stages >>

(* ------------------ wait_for_callback (lines 179-186) ------------------ *)

\* Line 182, and line 186 when the timeout has elapsed.
WaitLoopTest ==
    /\ pc = "wait_loop"
    /\ IF LoopContinues(elapsed)
       THEN pc' = "wait_check" /\ UNCHANGED result
       ELSE pc' = "shutdown" /\ result' = NoResult
    /\ UNCHANGED << cfgVars, mcpVars, callVars, pkceVars, exit_code, regVars, authVars, srvVars, slotVars,
                    lsnVars, elapsed, read_code, tokVars, probeVars, stages >>

\* Line 183: one read of CallbackHandler.received_code.
WaitCheck ==
    /\ pc = "wait_check"
    /\ pc' = IF CodeReceived(received_code) THEN "wait_read_code" ELSE "wait_sleep"
    /\ UNCHANGED << cfgVars, mcpVars, callVars, pkceVars, exit_code, regVars, authVars, srvVars, slotVars,
                    lsnVars, waitVars, tokVars, probeVars, stages >>

\* Line 184, first element of the tuple: a second read of received_code.
WaitReadCode ==
    /\ pc = "wait_read_code"
    /\ read_code' = received_code
    /\ pc' = "wait_read_state"
    /\ UNCHANGED << cfgVars, mcpVars, callVars, pkceVars, exit_code, regVars, authVars, srvVars, slotVars,
                    lsnVars, elapsed, result, tokVars, probeVars, stages >>

\* Line 184, second element: the read of received_state, and the return.
WaitReadState ==
    /\ pc = "wait_read_state"
    /\ result' = Tuple(read_code, received_state)
    /\ pc' = "shutdown"
    /\ UNCHANGED << cfgVars, mcpVars, callVars, pkceVars, exit_code, regVars, authVars, srvVars, slotVars,
                    lsnVars, elapsed, read_code, tokVars, probeVars, stages >>

\* Line 185: one polling interval passes.  The clock is only ever compared
\* with the timeout, so it is not counted beyond it.
WaitSleep ==
    /\ pc = "wait_sleep"
    /\ elapsed' = IF elapsed < TimeoutTicks THEN elapsed + 1 ELSE elapsed
    /\ pc' = "wait_loop"
    /\ UNCHANGED << cfgVars, mcpVars, callVars, pkceVars, exit_code, regVars, authVars, srvVars, slotVars,
                    lsnVars, read_code, result, tokVars, probeVars, stages >>

(* ------------- test_authorization after the wait (290-331) ------------- *)

\* Mutant of ShutdownRequested: a request that also reaches a loop that
\* has ended.
ShutdownRequestedAlways(s) == "stopping"

\* What the stop request of shutdown() does to the server: a running
\* serve_forever loop is asked to leave; a loop that has ended stays ended.
ShutdownRequested(s) == IF s = "serving" THEN "stopping" ELSE s

\* Line 293, first half: shutdown() asks the serve_forever loop to stop.
\* From here on the loop accepts no further request.
ShutdownRequest ==
    /\ pc = "shutdown"
    /\ server' = ShutdownRequested(server)
    /\ pc' = "shutdown_wait"
    /\ UNCHANGED << cfgVars, mcpVars, callVars, pkceVars, exit_code, regVars, authVars, socket_bound,
                    slotVars, lsnVars, waitVars, tokVars,
                    probeVars, stages >>

\* Line 293, second half: shutdown() returns once the loop has ended, which
\* is after a request being handled has been finished.  shutdown() does not
\* close the listening socket (that is server_close(), which is never called).
ShutdownReturns ==
    /\ pc = "shutdown_wait"
    /\ lpc = "idle"
    /\ server' = "stopped"
    /\ shutdowns' = shutdowns + 1
    /\ pc' = "result_check"
    /\ UNCHANGED << cfgVars, mcpVars, pkceVars, flow, exit_code, regVars, authVars, socket_bound,
                    slotVars, lsnVars, waitVars, tokVars,
                    probeVars, stages >>

\* When test_authorization returns, its local `server` is dropped.  Whether
\* the interpreter then reclaims the HTTPServer object, and with it closes
\* the socket, is up to its memory management: either outcome is possible.
FrameDropped ==
    \E reclaimed \in BOOLEAN :
        socket_bound' = IF reclaimed THEN FALSE ELSE socket_bound

\* Slicing x[:20] (lines 298, 299) raises TypeError when x is None.
SliceRaises(x) == x = None

\* Lines 295-302: `if result:` (a tuple is truthy whatever it holds), the
\* unpacking, the two prints that slice, and the return of the code.
ResultCheck ==
    /\ pc = "result_check"
    /\ IF result.tuple
       THEN IF SliceRaises(result.code) \/ SliceRaises(result.state)
            THEN /\ Crash
                 /\ auth_outcome' = "raised"
                 /\ UNCHANGED << auth_code, manual_entries, socket_bound >>
            ELSE /\ auth_code' = result.code
                 /\ auth_outcome' = "code_received"
                 /\ pc' = "auth_returned"
                 /\ FrameDropped
                 /\ UNCHANGED << exit_code, manual_entries >>
       ELSE /\ pc' = "manual"
            /\ manual_entries' = manual_entries + 1
            /\ UNCHANGED << exit_code, auth_code, auth_outcome, socket_bound >>
    /\ UNCHANGED << cfgVars, mcpVars, callVars, pkceVars, regVars, state, auth_request, server,
                    slotVars, lsnVars, waitVars, tokVars,
                    probeVars, stages >>

\* What the operator can type at the prompt of line 325 (line 343 of
\* "example"): nothing, blanks only, a code, a code between blanks.
ManualAnswers == {"", " ", "M", " M "}

\* Lines 304-331: the operator's answer, stripped; empty means skip
\* (`if not auth_code: return None`, line 327).
ManualEntry ==
    /\ pc = "manual"
    /\ \E typed \in ManualAnswers :
        IF ~Truthy(Strip(typed))
        THEN auth_code' = None /\ auth_outcome' = "skipped"
        ELSE auth_code' = Strip(typed) /\ auth_outcome' = "code_entered"
    /\ pc' = "auth_returned"
    /\ FrameDropped
    /\ UNCHANGED << cfgVars, mcpVars, callVars, pkceVars, exit_code, regVars, state, auth_request,
                    manual_entries, server, slotVars, lsnVars,
                    waitVars, tokVars, probeVars, stages >>

(* ------------------- main of "llm" after line 570 --------------------- *)

\* Mutant of CodeProvided: main goes on whatever test_authorization returned.
CodeProvidedAlways(c) == TRUE

\* The negation of the test `if not auth_code:` of line 572.
CodeProvided(c) == Truthy(c)

\* Lines 572-579.
AfterAuthorization ==
    /\ pc = "auth_returned"
    /\ IF CodeProvided(auth_code)
       THEN pc' = "token" /\ UNCHANGED exit_code
       ELSE Exit(0)
    /\ UNCHANGED << cfgVars, mcpVars, callVars, pkceVars, regVars, authVars, srvVars, slotVars, lsnVars,
                    waitVars, tokVars, probeVars, stages >>

\* Lines 582-591 with test_token_exchange (333-366).
LlmTokenExchange ==
    /\ script = "llm" /\ pc = "token"
    /\ token_request' = [sent |-> TRUE, code |-> auth_code,
                         redirect_uri |-> redirect_uri, client_id |-> client_id,
                         client_secret |-> client_secret,
                         code_verifier |-> VerifierSent(pkce)]
    /\ stages' = Append(stages, "token_exchange")
    /\ \E resp \in TokenResponses :
        /\ token_response' = resp
        /\ IF Raises(resp) THEN Crash
           ELSE IF NeverReturns(resp) THEN Blocked
           ELSE IF LlmAcceptsToken(resp) THEN pc' = "probe_oauth" /\ UNCHANGED exit_code
           ELSE Exit(1)
    /\ UNCHANGED << cfgVars, mcpVars, callVars, pkceVars, regVars, authVars, srvVars, slotVars, lsnVars,
                    waitVars, reported_complete, probeVars >>

\* Mutant of AfterOAuthProbe: a failed probe is sent again.
RetryOAuthProbe(success) == IF success THEN "probe_api_key" ELSE "probe_oauth"

\* Where main goes after test_proxy_with_oauth_token returned (line 594):
\* on to line 597, whatever the result.
AfterOAuthProbe(success) == "probe_api_key"

\* Line 594 with test_proxy_with_oauth_token (368-402).
ProbeWithOAuthToken ==
    /\ pc = "probe_oauth"
    /\ stages' = Append(stages, "probe_oauth")
    /\ \E resp \in ProbeResponses :
        /\ oauth_probe' = resp
        /\ IF Raises(resp)
           THEN Crash /\ UNCHANGED oauth_success
           ELSE IF NeverReturns(resp)
           THEN Blocked /\ UNCHANGED oauth_success
           ELSE /\ oauth_success' = (resp.status = 200)
                /\ pc' = AfterOAuthProbe(resp.status = 200)
                /\ UNCHANGED exit_code
    /\ UNCHANGED << cfgVars, mcpVars, callVars, pkceVars, regVars, authVars, srvVars, slotVars, lsnVars,
                    waitVars, tokVars, api_key_success, api_key_probe >>

\* Line 597 with test_proxy_with_api_key (404-446): without a key no request
\* is sent and the result is False.
ProbeWithApiKey ==
    /\ pc = "probe_api_key"
    /\ IF ~Truthy(api_key)
       THEN /\ api_key_success' = FALSE
            /\ pc' = "summary"
            /\ UNCHANGED << exit_code, stages, api_key_probe >>
       ELSE /\ stages' = Append(stages, "probe_api_key")
            /\ \E resp \in ProbeResponses :
                /\ api_key_probe' = resp
                /\ IF Raises(resp)
                   THEN Crash /\ UNCHANGED api_key_success
                   ELSE IF NeverReturns(resp)
                   THEN Blocked /\ UNCHANGED api_key_success
                   ELSE /\ api_key_success' = (resp.status = 200)
                        /\ pc' = "summary"
                        /\ UNCHANGED exit_code
    /\ UNCHANGED << cfgVars, mcpVars, callVars, pkceVars, regVars, authVars, srvVars, slotVars, lsnVars,
                    waitVars, tokVars, oauth_success, oauth_probe >>

\* Lines 599-620: the summary; main returns, the process ends with status 0.
Summary ==
    /\ pc = "summary"
    /\ reported_complete' = TRUE
    /\ pc' = "done"
    /\ exit_code' = 0
    /\ UNCHANGED << cfgVars, mcpVars, callVars, pkceVars, regVars, authVars, srvVars, slotVars, lsnVars,
                    waitVars, token_request, token_response, probeVars, stages >>

(* ------------------- main of "example" (lines 275-376) ---------------- *)

\* Lines 292-307: register_client and `if not client`.
ExampleRegister ==
    /\ script = "example" /\ pc = "dcr"
    /\ reg_request' = RegisterClientPayload(scope)
    /\ \E resp \in RegResponses(ExampleRegBodies) :
        /\ reg_response' = resp
        /\ stages' = Append(stages, "registration")
        /\ IF Raises(resp)
           THEN /\ Crash
                /\ UNCHANGED << client_id, client_secret, redirect_uri >>
           ELSE IF NeverReturns(resp)
           THEN /\ Blocked
                /\ UNCHANGED << client_id, client_secret, redirect_uri >>
           ELSE IF ExampleAcceptsRegistration(resp)
           THEN /\ client_id' = Get(resp.body, "client_id")
                /\ client_secret' = Get(resp.body, "client_secret")
                /\ pc' = "ex_build"
                /\ UNCHANGED << exit_code, redirect_uri >>
           ELSE /\ Exit(1)
                /\ UNCHANGED << client_id, client_secret, redirect_uri >>
    /\ UNCHANGED << cfgVars, mcpVars, callVars, pkceVars, authVars, srvVars, slotVars, lsnVars, waitVars,
                    tokVars, probeVars >>

\* Lines 314-335: PKCE and build_authorization_url (198-213).
ExampleBuildUrl ==
    /\ script = "example" /\ pc = "ex_build"
    /\ \E s \in States :
        /\ state' = s
        /\ pkce' = PkceTable[entropy]
        /\ auth_request' = BuildAuthorizationUrlParams(client_id, s, pkce'.challenge,
                                                       pkce'.method, scope)
    /\ stages' = Append(stages, "authorization")
    /\ pc' = "ex_input"
    /\ UNCHANGED << cfgVars, mcpVars, callVars, exit_code, regVars, auth_code, auth_outcome,
                    manual_entries, srvVars, slotVars, lsnVars, waitVars,
                    tokVars, probeVars >>

\* Lines 343-352: the operator's answer; empty means main returns.
ExampleInput ==
    /\ script = "example" /\ pc = "ex_input"
    /\ manual_entries' = manual_entries + 1
    /\ \E typed \in ManualAnswers :
        IF ~Truthy(Strip(typed))
        THEN /\ auth_code' = Strip(typed) /\ auth_outcome' = "skipped"
             /\ pc' = "done" /\ exit_code' = 0
        ELSE /\ auth_code' = Strip(typed) /\ auth_outcome' = "code_entered"
             /\ pc' = "token" /\ UNCHANGED exit_code
    /\ UNCHANGED << cfgVars, mcpVars, callVars, pkceVars, regVars, state, auth_request, srvVars, slotVars,
                    lsnVars, waitVars, tokVars, probeVars, stages >>

\* urllib.request.Request(url) raises ValueError ("unknown url type") when
\* the URL is None: line 58 of "example", reached from line 264.
RequestRaises(url) == url = None

\* Lines 357-376 with exchange_code_for_token (252-272): main returns
\* whatever the outcome, so the process ends with status 0.  The token
\* endpoint is the token_url of the registration response (line 307).
ExampleTokenExchange ==
    /\ script = "example" /\ pc = "token"
    /\ stages' = Append(stages, "token_exchange")
    /\ IF RequestRaises(Get(reg_response.body, "token_url"))
       THEN /\ Crash
            /\ UNCHANGED << token_request, token_response, reported_complete >>
       ELSE /\ token_request' = [sent |-> TRUE, code |-> auth_code,
                                 redirect_uri |-> CALLBACK_URI,
                                 client_id |-> client_id,
                                 client_secret |-> client_secret,
                                 code_verifier |-> VerifierSent(pkce)]
            /\ \E resp \in TokenResponses :
                /\ token_response' = resp
                /\ IF Raises(resp)
                   THEN Crash /\ UNCHANGED reported_complete
                   ELSE IF NeverReturns(resp)
                   THEN Blocked /\ UNCHANGED reported_complete
                   ELSE /\ reported_complete' = ExampleAcceptsToken(resp)
                        /\ pc' = "done"
                        /\ exit_code' = 0
    /\ UNCHANGED << cfgVars, mcpVars, callVars, pkceVars, regVars, authVars, srvVars, slotVars, lsnVars,
                    waitVars, probeVars >>

(* ------------- listener thread: CallbackHandler.do_GET ---------------- *)

\* The main thread is inside wait_for_callback.
InWait ==
    pc \in {"wait_loop", "wait_check", "wait_read_code", "wait_read_state", "wait_sleep"}

\* The serve_forever loop takes a request only while it has not been asked
\* to stop, and one at a time.
Accepting == server = "serving" /\ lpc = "idle" /\ handled < MaxRequests

\* Lines 115-131: a request with an error parameter; the only write is
\* line 130.
HandleError ==
    /\ Accepting
    /\ \E r \in Requests : Truthy(r.error) /\ answer' = Answer(r, "error")
    /\ received_code' = None
    /\ handled' = handled + 1
    /\ error_in_wait' = (error_in_wait \/ InWait)
    /\ UNCHANGED << cfgVars, mcpVars, callVars, pkceVars, pc, exit_code, regVars, authVars, srvVars,
                    received_state, lpc, req, handled_pairs, waitVars,
                    tokVars, probeVars, stages >>

\* Lines 133-135: a request with a code and no error; first write.
HandleCodeStoreCode ==
    /\ Accepting
    /\ \E r \in Requests :
        /\ ~Truthy(r.error) /\ Truthy(r.code)
        /\ req' = r
        /\ answer' = Answer(r, "none")
        /\ received_code' = r.code
        /\ handled_pairs' = handled_pairs \cup { << r.code, r.state >> }
    /\ lpc' = "store_state"
    /\ handled' = handled + 1
    /\ UNCHANGED << cfgVars, mcpVars, callVars, pkceVars, pc, exit_code, regVars, authVars, srvVars,
                    received_state, error_in_wait, waitVars, tokVars,
                    probeVars, stages >>

\* Mutant of StateToStore: a handler that forgets the state.
StateToStoreNone(r) == None

\* The value line 136 stores: the state parsed at line 112.
StateToStore(r) == r.state

\* Lines 136-152: second write, and the success page.
HandleCodeStoreState ==
    /\ lpc = "store_state"
    /\ received_state' = StateToStore(req)
    /\ answer' = Answer(req, "success")
    /\ lpc' = "idle"
    /\ req' = NoRequest
    /\ UNCHANGED << cfgVars, mcpVars, callVars, pkceVars, pc, exit_code, regVars, authVars, srvVars,
                    received_code, handled, handled_pairs, error_in_wait,
                    waitVars, tokVars, probeVars, stages >>

\* Mutant of SlotAfterOther: the failure branch clears the slot as the
\* error branch does.
SlotClearedAfterOther(old) == None

\* The stored code after the else branch of lines 153-166, which writes
\* nothing.
SlotAfterOther(old) == old

\* Lines 153-166: neither code nor error; the failure page, no write.
HandleOther ==
    /\ Accepting
    /\ \E r \in Requests :
        /\ ~Truthy(r.error) /\ ~Truthy(r.code)
        /\ answer' = Answer(r, "failure")
    /\ received_code' = SlotAfterOther(received_code)
    /\ handled' = handled + 1
    /\ UNCHANGED << cfgVars, mcpVars, callVars, pkceVars, pc, exit_code, regVars, authVars, srvVars,
                    received_state, lpc, req, handled_pairs, error_in_wait,
                    waitVars, tokVars, probeVars, stages >>

(* --------------------------- specification ---------------------------- *)

\* wait_for_callback and the shutdown that follows it.
WaitStep ==
    \/ WaitLoopTest \/ WaitCheck \/ WaitReadCode \/ WaitReadState \/ WaitSleep
    \/ ShutdownRequest \/ ShutdownReturns \/ ResultCheck

Next ==
    \/ LlmRegister
    \/ BuildAuthorizationUrl
    \/ StartCallbackServer
    \/ ResetReceivedCode
    \/ ResetReceivedState
    \/ OpenBrowser
    \/ IfServer
    \/ WaitLoopTest
    \/ WaitCheck
    \/ WaitReadCode
    \/ WaitReadState
    \/ WaitSleep
    \/ ShutdownRequest
    \/ ShutdownReturns
    \/ ResultCheck
    \/ ManualEntry
    \/ AfterAuthorization
    \/ LlmTokenExchange
    \/ ProbeWithOAuthToken
    \/ ProbeWithApiKey
    \/ Summary
    \/ ExampleRegister
    \/ ExampleBuildUrl
    \/ ExampleInput
    \/ ExampleTokenExchange
    \/ HandleError
    \/ HandleCodeStoreCode
    \/ HandleCodeStoreState
    \/ HandleOther

Spec == Init /\ [][Next]_vars

\* The main thread keeps running while it polls, sleeps and shuts the
\* server down (time.sleep returns, the thread is scheduled), and the
\* listener thread finishes a request it has begun to handle.  Nothing
\* obliges a callback to arrive or the operator to answer the prompt.
Fairness == WF_vars(WaitStep) /\ WF_vars(HandleCodeStoreState)

\* The steps of main outside test_authorization that do not wait for the
\* operator: the network calls and what main does with their results.
MainStep ==
    \/ LlmRegister \/ AfterAuthorization \/ LlmTokenExchange
    \/ ProbeWithOAuthToken \/ ProbeWithApiKey \/ Summary
    \/ ExampleRegister \/ ExampleBuildUrl \/ ExampleTokenExchange

\* The main thread is scheduled and goes on whenever it can.
MainFairness == WF_vars(MainStep)

FairSpec == Spec /\ Fairness /\ MainFairness

(* ---------- test_authorization alone, called as main calls it ---------- *)

\* A registration response that echoes the request of lines 203-211.
EchoRegistration ==
    [kind |-> "http", status |-> 200,
     body |-> [client_id |-> "c1", client_secret |-> "x1",
               redirect_uris |-> << CALLBACK_URI, CURSOR_URI >>]]

\* A state in which main of "llm" calls test_authorization (line 570):
\* registration was accepted and the locals of lines 555-557 were set.
\* test_authorization reads none of them but client_id.
AuthorizationInit ==
    /\ script = "llm"
    /\ api_key \in {"", "k"}
    /\ scope \in RunScopes
    /\ entropy \in RunEntropy
    /\ reg_request = DcrPayload(LlmScope(scope))
    /\ pkce = PkceTable[entropy]
    /\ McpNotRun
    /\ pc = "authorize"
    /\ reg_response = EchoRegistration
    /\ client_id = Get(EchoRegistration.body, "client_id")
    /\ client_secret = Get(EchoRegistration.body, "client_secret")
    /\ redirect_uri = TokenRedirectUri(EchoRegistration.body)
    /\ stages = << "registration" >>
    /\ NothingAuthorizedYet

\* The steps of test_authorization and of the listener thread.
AuthorizationNext ==
    \/ BuildAuthorizationUrl
    \/ StartCallbackServer
    \/ ResetReceivedCode
    \/ ResetReceivedState
    \/ OpenBrowser
    \/ IfServer
    \/ WaitLoopTest
    \/ WaitCheck
    \/ WaitReadCode
    \/ WaitReadState
    \/ WaitSleep
    \/ ShutdownRequest
    \/ ShutdownReturns
    \/ ResultCheck
    \/ ManualEntry
    \/ HandleError
    \/ HandleCodeStoreCode
    \/ HandleCodeStoreState
    \/ HandleOther

AuthorizationSpec == AuthorizationInit /\ [][AuthorizationNext]_vars /\ Fairness

(* ---------- the listener of a fresh flow, from line 271 onwards --------- *)

\* The state of a run of "llm" in which test_authorization has started the
\* callback server and has just executed line 271, and no request has
\* reached the listener yet: the slot is empty.
ListenerInit ==
    /\ script = "llm"
    /\ api_key \in {"", "k"}
    /\ scope \in RunScopes
    /\ entropy \in RunEntropy
    /\ reg_request = DcrPayload(LlmScope(scope))
    /\ pkce = PkceTable[entropy]
    /\ McpNotRun
    /\ pc = "open_browser"
    /\ flow = 1
    /\ shutdowns = 0
    /\ exit_code = -1
    /\ reg_response = EchoRegistration
    /\ client_id = Get(EchoRegistration.body, "client_id")
    /\ client_secret = Get(EchoRegistration.body, "client_secret")
    /\ redirect_uri = TokenRedirectUri(EchoRegistration.body)
    /\ state \in States
    /\ auth_request = AuthorizationParams(client_id, state, pkce, LlmScope(scope))
    /\ stages = << "registration", "authorization" >>
    /\ server = "serving"
    /\ socket_bound = TRUE
    /\ received_code = None /\ received_state = None
    /\ lpc = "idle" /\ req = NoRequest /\ handled = 0
    /\ answer = NoAnswer
    /\ elapsed = 0
    /\ read_code = None
    /\ result = NoResult
    /\ auth_code = None
    /\ auth_outcome = "none"
    /\ token_request = NoSent
    /\ token_response = [kind |-> "none", status |-> 0, body |-> EmptyObject]
    /\ reported_complete = FALSE
    /\ oauth_success = FALSE /\ api_key_success = FALSE
    /\ oauth_probe = NoProbe /\ api_key_probe = NoProbe
    /\ handled_pairs = {}
    /\ error_in_wait = FALSE
    /\ manual_entries = 0

\* The rest of test_authorization and the listener thread.
ListenerNext ==
    \/ OpenBrowser
    \/ IfServer
    \/ WaitLoopTest
    \/ WaitCheck
    \/ WaitReadCode
    \/ WaitReadState
    \/ WaitSleep
    \/ ShutdownRequest
    \/ ShutdownReturns
    \/ ResultCheck
    \/ ManualEntry
    \/ HandleError
    \/ HandleCodeStoreCode
    \/ HandleCodeStoreState
    \/ HandleOther

ListenerSpec == ListenerInit /\ [][ListenerNext]_vars

(* ------------------- shutdown() called more than once ------------------ *)

\* A caller that calls server.shutdown() once more after the call of line
\* 293 has returned: the stop request is made again and the wait for the
\* loop's end returns at once, the loop having ended already.
ShutdownAgain ==
    /\ pc = "result_check"
    /\ shutdowns >= 1 /\ shutdowns < MaxShutdowns
    /\ server' = ShutdownRequested(server)
    /\ shutdowns' = shutdowns + 1
    /\ UNCHANGED << cfgVars, mcpVars, pkceVars, flow, pc, exit_code, regVars, authVars,
                    socket_bound, slotVars, lsnVars, waitVars, tokVars,
                    probeVars, stages >>

ShutdownNext == AuthorizationNext \/ ShutdownAgain

ShutdownSpec == AuthorizationInit /\ [][ShutdownNext]_vars /\ Fairness

(* ------------ test_authorization called again in one process ----------- *)

\* A caller that calls test_authorization once more after it returned: the
\* locals of the call are new, its history starts anew; the class attributes
\* of CallbackHandler (lines 101-102) and the sockets of the process are
\* what they were.
CallAgain ==
    /\ pc = "auth_returned"
    /\ flow < MaxFlows
    /\ flow' = flow + 1
    /\ pc' = "authorize"
    /\ server' = "none"
    /\ shutdowns' = 0
    /\ elapsed' = 0
    /\ read_code' = None
    /\ result' = NoResult
    /\ auth_code' = None
    /\ auth_outcome' = "none"
    /\ manual_entries' = 0
    /\ handled_pairs' = {}
    /\ error_in_wait' = FALSE
    /\ UNCHANGED << cfgVars, mcpVars, pkceVars, exit_code, regVars, state, auth_request,
                    socket_bound, slotVars, lpc, req, handled, answer, tokVars,
                    probeVars, stages >>

RepeatedNext == AuthorizationNext \/ CallAgain

RepeatedSpec == AuthorizationInit /\ [][RepeatedNext]_vars

(* ----------------------- mcp_oauth_example.py ------------------------- *)

\* The `data` object of an authorize response: any subset of the two keys
\* read at lines 59-60.
AuthorizeData ==
    { Restrict([authorization_url |-> "u", state |-> s], K) :
        s \in States, K \in SUBSET {"authorization_url", "state"} }

\* JSON objects an authorize response can carry: any subset of the keys
\* read at lines 55 and 59.
AuthorizeBodies ==
    { Restrict([success |-> s, data |-> d], K) :
        s \in BOOLEAN, d \in AuthorizeData, K \in SUBSET {"success", "data"} }

\* What requests.post does at lines 48-51: an HTTP answer whose body is a
\* JSON object, a JSON array, or no JSON at all; or a RequestException
\* (connection refused, the 10 s timeout).
AuthorizeResponses ==
    [kind : {"http"}, status : {200, 500}, json : {"object"}, body : AuthorizeBodies]
        \cup { [kind |-> "http", status |-> 200, json |-> j, body |-> EmptyObject] :
                 j \in {"array", "none"} }
        \cup { [kind |-> "neterr", status |-> 0, json |-> "none", body |-> EmptyObject] }

\* Lines 48-60 go through: no exception from post (line 124 otherwise), a
\* status raise_for_status accepts (line 52), a body that is a JSON object
\* (line 53; on anything else line 53 or 55 raises), a true `success`
\* (line 55), and both keys of `data` (lines 59-60, KeyError otherwise).
AuthorizeStarts(resp) ==
    /\ resp.kind = "http"
    /\ resp.status = 200
    /\ resp.json = "object"
    /\ "success" \in DOMAIN resp.body /\ resp.body.success
    /\ "data" \in DOMAIN resp.body
    /\ {"authorization_url", "state"} \subseteq DOMAIN resp.body.data

\* What the operator can paste at line 78, described by what the checks of
\* lines 80-111 look at: whether it is blank, whether it starts with
\* "eyJ", the number of parts split('.') gives, whether the padded second
\* part is accepted by b64decode, and what the decoded bytes are: a JSON
\* object, another JSON value, text that is not JSON, or bytes that are no
\* text.
PastedTokens ==
    { [blank |-> TRUE, eyJ |-> FALSE, parts |-> 1, padding_ok |-> TRUE, payload |-> "text"] }
        \cup [blank : {FALSE}, eyJ : BOOLEAN, parts : 1..4, padding_ok : BOOLEAN,
              payload : {"object", "array", "text", "binary"}]

\* Mutant of ThreeParts: the number of parts is not checked.
AnyParts(n) == TRUE

\* The negation of the test of line 96.
ThreeParts(n) == n = 3

\* get_oauth_token from line 80 on: "return" (line 118), "exit"
\* (sys.exit(1) at lines 82, 87, 98, 122) or "raise" (an exception that no
\* except clause of the function names: UnicodeDecodeError from json.loads
\* at line 109, AttributeError from .get on a JSON value that is no object
\* at line 111).
GetOAuthTokenOutcome(t) ==
    IF t.blank THEN "exit"
    ELSE IF ~t.eyJ THEN "exit"
    ELSE IF ~ThreeParts(t.parts) THEN "exit"
    ELSE IF ~t.padding_ok THEN "exit"
    ELSE IF t.payload = "binary" THEN "raise"
    ELSE IF t.payload = "text" THEN "exit"
    ELSE IF t.payload = "array" THEN "raise"
    ELSE "return"

\* Line 265: the operator presses Enter, or interrupts (lines 315-317).
McpPressEnter ==
    /\ script = "mcp" /\ pc = "mcp_start"
    /\ \E key \in {"enter", "interrupt"} :
        IF key = "enter" THEN pc' = "mcp_authorize" /\ UNCHANGED exit_code
        ELSE Exit(0)
    /\ UNCHANGED << cfgVars, mcpVars, callVars, pkceVars, regVars, authVars, srvVars,
                    slotVars, lsnVars, waitVars, tokVars, probeVars, stages >>

\* Lines 46-67 under main's handlers (lines 268-275): the authorize
\* request and the opening of the browser.  sys.exit(1) at lines 57, 126,
\* 129; any other exception reaches line 273 and ends with sys.exit(1) too.
McpAuthorize ==
    /\ script = "mcp" /\ pc = "mcp_authorize"
    /\ \E resp \in AuthorizeResponses, outcome \in BrowserOutcomes :
        /\ authorize_response' = resp
        /\ IF AuthorizeStarts(resp) /\ outcome /= "raised"
           THEN pc' = "mcp_paste" /\ UNCHANGED exit_code
           ELSE Exit(1)
    /\ UNCHANGED << cfgVars, pasted, session_token, mcp_requests, callVars, pkceVars,
                    regVars, authVars, srvVars, slotVars, lsnVars, waitVars,
                    tokVars, probeVars, stages >>

\* Lines 78-122 under main's handlers: the operator pastes a token, or
\* interrupts (lines 270-272, status 0).
McpPaste ==
    /\ script = "mcp" /\ pc = "mcp_paste"
    /\ \E key \in {"paste", "interrupt"} :
        IF key = "interrupt"
        THEN Exit(0) /\ UNCHANGED << pasted, session_token >>
        ELSE \E typed \in PastedTokens :
                /\ pasted' = typed
                /\ IF GetOAuthTokenOutcome(typed) = "return"
                   THEN /\ session_token' = typed
                        /\ pc' = "mcp_list"
                        /\ UNCHANGED exit_code
                   ELSE /\ Exit(1)
                        /\ UNCHANGED session_token
    /\ UNCHANGED << cfgVars, authorize_response, mcp_requests, callVars, pkceVars,
                    regVars, authVars, srvVars, slotVars, lsnVars, waitVars,
                    tokVars, probeVars, stages >>

\* What the proxy answers to tools/list: a status, whether the body has
\* "result", and the number of tools in it; or a RequestException.
ListResponses ==
    [kind : {"http"}, status : {200, 401, 500}, has_result : BOOLEAN, tools : {0, 1}]
        \cup { [kind |-> "neterr", status |-> 0, has_result |-> FALSE, tools |-> 0] }

\* The length of the list list_mcp_tools returns: lines 164-194.
ToolsListed(resp) ==
    IF resp.kind = "http" /\ resp.status = 200 /\ resp.has_result THEN resp.tools ELSE 0

\* Lines 278-285 with list_mcp_tools (131-194): one tools/list request.
McpListTools ==
    /\ script = "mcp" /\ pc = "mcp_list"
    /\ mcp_requests' = Append(mcp_requests, "tools/list")
    /\ \E resp \in ListResponses :
        pc' = IF ToolsListed(resp) > 0 THEN "mcp_choice" ELSE "mcp_save"
    /\ UNCHANGED << cfgVars, authorize_response, pasted, session_token, callVars,
                    pkceVars, exit_code, regVars, authVars, srvVars, slotVars,
                    lsnVars, waitVars, tokVars, probeVars, stages >>

\* Lines 287-291 with call_mcp_tool (196-244): on "y" one tools/call
\* request, whose outcome is only printed.
McpChoice ==
    /\ script = "mcp" /\ pc = "mcp_choice"
    /\ \E choice \in {"y", "n"} :
        mcp_requests' = IF choice = "y" THEN Append(mcp_requests, "tools/call")
                        ELSE mcp_requests
    /\ pc' = "mcp_save"
    /\ UNCHANGED << cfgVars, authorize_response, pasted, session_token, callVars,
                    pkceVars, exit_code, regVars, authVars, srvVars, slotVars,
                    lsnVars, waitVars, tokVars, probeVars, stages >>

\* Lines 294-310: save_token and the summary; main returns, status 0.
McpSave ==
    /\ script = "mcp" /\ pc = "mcp_save"
    /\ pc' = "done" /\ exit_code' = 0
    /\ UNCHANGED << cfgVars, mcpVars, callVars, pkceVars, regVars, authVars, srvVars,
                    slotVars, lsnVars, waitVars, tokVars, probeVars, stages >>

\* The start of main of mcp_oauth_example.py; the variables of the two
\* harness scripts keep their initial values throughout.
McpInit ==
    /\ script = "mcp"
    /\ api_key = "" /\ scope = ""
    /\ entropy \in RunEntropy
    /\ reg_request = NoSent
    /\ pkce = NoPkce
    /\ pc = "mcp_start"
    /\ reg_response = [kind |-> "none", status |-> 0, body |-> EmptyObject]
    /\ client_id = None /\ client_secret = None /\ redirect_uri = None
    /\ stages = << >>
    /\ NothingAuthorizedYet
    /\ McpNotRun

McpNext ==
    \/ McpPressEnter
    \/ McpAuthorize
    \/ McpPaste
    \/ McpListTools
    \/ McpChoice
    \/ McpSave

McpSpec == McpInit /\ [][McpNext]_vars

(* ============================ properties ============================== *)

\* start_callback_server returned a server in this run.
ServerStarted == server \in {"serving", "stopping", "stopped"}

\* test_authorization has returned a value to main.
AuthorizationReturned == auth_outcome \in {"code_received", "code_entered", "skipped"}

\* Registration success as the specification defines it: HTTP 200 or 201
\* with a body containing client_id and client_secret.
RegistrationSucceeded(resp) ==
    /\ resp.kind = "http"
    /\ resp.status \in {200, 201}
    /\ {"client_id", "client_secret"} \subseteq DOMAIN resp.body

\* Token-exchange success as the specification defines it: exactly HTTP 200
\* with an access_token field present.
TokenSucceeded(resp) ==
    /\ resp.kind = "http"
    /\ resp.status = 200
    /\ "access_token" \in DOMAIN resp.body

\* The run went on past registration / stopped at it.
ContinuedPastRegistration == pc \in {"authorize", "ex_build"} \/ auth_request.sent
AbortedAtRegistration == pc \in {"exit", "crashed"} /\ ~auth_request.sent

\* The run treated the token response as a success: it went on to the
\* probes ("llm") or reported the flow complete ("example").
TreatedTokenAsSuccess ==
    \/ pc \in {"probe_oauth", "probe_api_key", "summary"}
    \/ "probe_oauth" \in { stages[i] : i \in DOMAIN stages }
    \/ reported_complete

\* Position of a stage in the order registration, authorization, token
\* exchange, probes.
StageRank(name) ==
    CASE name = "registration" -> 1
      [] name = "authorization" -> 2
      [] name = "token_exchange" -> 3
      [] name = "probe_oauth" -> 4
      [] name = "probe_api_key" -> 5

\* C1: when the listener delivers a callback whose state (here: one that
\* is present) differs from the state generated for this authorization
\* attempt, test_authorization reports an authorization error, returns no
\* code, and the run never sends the token request.
C1_StateMismatchRejected ==
    ( /\ result.tuple
      /\ << result.code, result.state >> \in handled_pairs
      /\ result.state /= None
      /\ result.state /= state )
    => ( /\ auth_outcome \in {"none", "authorization_error"}
         /\ auth_code = None
         /\ ~token_request.sent )

\* A step of the listener thread.
ListenerStep == handled' /= handled \/ lpc' /= lpc

\* The slot holds the completely stored result of a code callback.
ResultStored == Truthy(received_code) /\ lpc = "idle"

\* C2: once the listener has stored the result of a code callback and the
\* orchestrator waits for it, no later request the listener handles changes
\* the stored code or state.
C2_SlotWrittenOnce ==
    [][ (ResultStored /\ InWait /\ ListenerStep)
          => (received_code' = received_code /\ received_state' = received_state) ]_vars

\* C3: when an error callback (and no code callback) is handled while the
\* orchestrator waits, test_authorization ends as CallbackFailed: it does not
\* go on to the timeout, to manual entry or to a code.
C3_ErrorCallbackIsTerminal ==
    (error_in_wait /\ handled_pairs = {})
    => ( /\ manual_entries = 0
         /\ pc /= "manual"
         /\ auth_outcome \in {"none", "callback_failed"} )

\* C4: whenever test_authorization has returned after starting the listener,
\* the listener has been shut down and no listening socket is left bound.
C4_ListenerReleasedOnReturn ==
    (ServerStarted /\ AuthorizationReturned)
    => (server = "stopped" /\ ~socket_bound)

\* C5: the wait never lasts forever; without a callback it ends with the
\* timeout result and test_authorization enters manual entry, and manual
\* entry is entered at most once.
C5_TimeoutFallsBackOnce ==
    /\ [](manual_entries <= 1)
    /\ []((pc = "result_check" /\ handled = 0) => ~result.tuple)
    /\ (InWait ~> ~InWait)
    /\ ((InWait /\ handled = 0) ~> ((pc = "manual" /\ manual_entries = 1) \/ handled > 0))

\* C5 witness: the wait timed out without any callback, the server was shut
\* down and manual entry was entered once.
C5_Witness ==
    /\ pc = "manual" /\ manual_entries = 1
    /\ handled = 0 /\ server = "stopped"
    /\ elapsed = TimeoutTicks /\ ~result.tuple

\* C6: the stages are invoked in the order registration, authorization,
\* token exchange, probes; the token request is sent only after a successful
\* registration and with an authorization code, and a probe only after a
\* successful token exchange.
C6_StagesInOrder ==
    /\ \A i, j \in DOMAIN stages : i < j => StageRank(stages[i]) < StageRank(stages[j])
    /\ token_request.sent => (RegistrationSucceeded(reg_response) /\ Truthy(auth_code))
    /\ (\E i \in DOMAIN stages : StageRank(stages[i]) >= 4)
         => TokenSucceeded(token_response)

\* C7: the redirect_uri of the token request is the redirect_uri of the
\* authorization request of the same run.
C7_SameRedirectUri ==
    token_request.sent => token_request.redirect_uri = auth_request.redirect_uri

\* C8: the (code, state) pair wait_for_callback returns is the pair carried
\* by one single callback request.
C8_NoTornRead ==
    result.tuple => << result.code, result.state >> \in handled_pairs

\* C9: for every registration response, the run continues past registration
\* if and only if the status is 200 or 201 and the body has client_id and
\* client_secret; otherwise it is aborted.
C9_RegistrationSuccessIff ==
    reg_response.kind = "http"
    => ( /\ RegistrationSucceeded(reg_response) => ContinuedPastRegistration
         /\ ~RegistrationSucceeded(reg_response) => AbortedAtRegistration )

\* C10: for every token response, the exchange is treated as successful if and
\* only if the status is 200 and the body has access_token; otherwise the
\* flow is neither reported complete nor continued to the probes.
C10_TokenSuccessIff ==
    token_response.kind = "http"
    => (TreatedTokenAsSuccess <=> TokenSucceeded(token_response))

\* The run has ended: main returned, called sys.exit, or died of an
\* exception nobody caught.
RunEnded == pc \in {"done", "exit", "crashed"}

\* The run ended at registration: no later stage was invoked.
EndedAtRegistration == RunEnded /\ stages = << "registration" >>

\* The run ended at a token exchange that had failed.
EndedAtFailedTokenExchange ==
    /\ RunEnded
    /\ token_response.kind /= "none"
    /\ ~TokenSucceeded(token_response)

\* The run ended after its probes were completed.
EndedAfterProbes == pc = "done" /\ script = "llm" /\ reported_complete

\* C11: a run that ends because registration or token exchange failed has
\* exit code 1; a run that ends by the explicit skip of the authorization
\* code, or after the probes whatever their outcomes, has exit code 0.
C11_ExitCodes ==
    /\ EndedAtRegistration => exit_code = 1
    /\ EndedAtFailedTokenExchange => exit_code = 1
    /\ (RunEnded /\ auth_outcome = "skipped") => exit_code = 0
    /\ EndedAfterProbes => exit_code = 0

\* The OAuth-token probe was attempted and failed: a status other than 200,
\* or a network-level failure.
OAuthProbeFailed ==
    \/ oauth_probe.kind = "neterr"
    \/ (oauth_probe.kind = "http" /\ oauth_probe.status /= 200)

\* C12: with an API key configured, a run that has attempted the OAuth-token
\* probe does not end without having executed the API-key probe as well and
\* reported the two outcomes in the summary, also when the OAuth-token probe
\* failed.
C12_ProbesIndependent ==
    (RunEnded /\ Truthy(api_key) /\ (OAuthProbeFailed \/ oauth_success))
    => (api_key_probe.kind /= "none" /\ reported_complete)

\* C18: a network-level failure of the registration call or of the token
\* call ends the run as that stage's error (the abort with status 1 that a
\* refused registration or token exchange gets), and a network-level
\* failure of a probe leaves that probe reported as failed with the run
\* going on; none of them ends the process with an uncaught exception.
C18_NetworkFailureIsStageError ==
    /\ reg_response.kind = "neterr" => (pc = "exit" /\ exit_code = 1)
    /\ token_response.kind = "neterr" => (pc = "exit" /\ exit_code = 1)
    /\ oauth_probe.kind = "neterr"
         => (~oauth_success /\ pc \in {"probe_api_key", "summary", "done", "in_urlopen"})
    /\ api_key_probe.kind = "neterr"
         => (~api_key_success /\ pc \in {"summary", "done"})

SharedSlot == << received_code, received_state >>

\* The slot as lines 270-271 leave it, before any request.
EmptySlot == << None, None >>

\* C14: after an error callback (the only request handled, while the
\* orchestrator waits) no code is stored, and what the handler shares with
\* the orchestrator records the failure: it is not what the orchestrator
\* sees when no callback has arrived at all.
C14_ErrorCallbackStored ==
    (error_in_wait /\ handled = 1 /\ InWait)
    => (received_code = None /\ SharedSlot /= EmptySlot)

\* C15: when start_callback_server has failed, test_authorization does not
\* end with an error: it never waits for a callback, never shuts a listener
\* down, and goes from the browser step straight to manual entry.
C15_StartFailureFallsBack ==
    /\ [](server = "failed"
           => ( /\ ~InWait
                /\ pc \notin {"shutdown", "shutdown_wait", "result_check", "crashed"}
                /\ result = NoResult
                /\ auth_outcome \in {"none", "skipped", "code_entered"} ))
    /\ [][ server = "failed" => server' = "failed" ]_vars
    /\ [][ (server = "failed" /\ pc \in {"browser_opened", "browser_warned"})
             => (pc' = "manual" /\ manual_entries' = 1) ]_vars

\* C15 witness: the server could not be started and manual entry has been
\* entered without any wait.
C15_Witness ==
    /\ server = "failed" /\ pc = "manual"
    /\ manual_entries = 1 /\ elapsed = 0 /\ ~socket_bound

\* C16: after an empty answer in manual entry no code is returned, the run
\* sends no token request, invokes no probe and does not end in an error;
\* a non-empty answer is returned as the authorization code.
C16_EmptyAnswerSkips ==
    /\ auth_outcome = "skipped"
         => ( /\ ~Truthy(auth_code)
              /\ ~token_request.sent
              /\ \A i \in DOMAIN stages : StageRank(stages[i]) <= 2
              /\ pc \in {"auth_returned", "exit", "done"}
              /\ exit_code \in {-1, 0}
              /\ RunEnded => exit_code = 0 )
    /\ auth_outcome = "code_entered" => auth_code = "M"
    /\ (auth_outcome = "code_entered" /\ token_request.sent) => token_request.code = "M"

\* C16 witness: the operator answered the prompt of test_authorization with
\* nothing and the run has ended without a token request.
C16_Witness ==
    /\ script = "llm" /\ auth_outcome = "skipped"
    /\ manual_entries = 1 /\ pc = "exit" /\ exit_code = 0
    /\ ~token_request.sent

\* Codes and states the listener has stored during the current call of
\* test_authorization.
CodesOfThisFlow == { p[1] : p \in handled_pairs }
StatesOfThisFlow == { p[2] : p \in handled_pairs }

\* C17: in a second or later call of test_authorization in one process, the
\* code and the state wait_for_callback returns were stored by the handler
\* during this call, or are None (the value of the reset and of an error
\* callback): nothing an earlier call left in the slot is returned.
C17_NoStaleResult ==
    (flow > 1 /\ result.tuple)
    => ( /\ result.code \in CodesOfThisFlow \cup {None}
         /\ result.state \in StatesOfThisFlow \cup {None} )

\* C17 witness: the first call handled one request, and the second call has
\* returned the callback (B, s2) of its own.
C17_Witness ==
    /\ flow = 2 /\ result = Tuple("B", "s2")
    /\ handled_pairs = { << "B", "s2" >> }
    /\ handled = 2 /\ pc = "auth_returned"

\* The main thread is inside urlopen, waiting for the answer.
InNetworkCall == pc = "in_urlopen"

\* C19: a network call always returns to its caller, also when the server
\* never answers: the main thread does not stay inside urlopen forever.
C19_NetworkCallReturns == InNetworkCall ~> ~InNetworkCall

\* A step in which a call of shutdown() after the first one returns.
SecondShutdownStep == shutdowns >= 1 /\ shutdowns' = shutdowns + 1

RequestInit == Start(ScopeArgs, { TokenBytes(s) : s \in PkceSeeds })

\* The steps that build and send requests without the callback listener:
\* registration and authorization URL of both scripts, and the rest of
\* "example".
RequestNext ==
    \/ LlmRegister
    \/ BuildAuthorizationUrl
    \/ ExampleRegister
    \/ ExampleBuildUrl
    \/ ExampleInput
    \/ ExampleTokenExchange

RequestSpec == RequestInit /\ [][RequestNext]_vars

\* Random byte strings of the runs followed up to the token exchange.
ExchangeEntropy == { TokenBytes(<< 251, 255 >>), TokenBytes(<< 0, 77 >>) }

ExchangeInit == Start(RunScopes, ExchangeEntropy)

\* The runs of both scripts up to the token exchange in which no request
\* reaches the callback listener: "llm" gets its code by manual entry,
\* after the wait has timed out or the server could not be started.
ExchangeNext ==
    \/ LlmRegister
    \/ BuildAuthorizationUrl
    \/ StartCallbackServer
    \/ ResetReceivedCode
    \/ ResetReceivedState
    \/ OpenBrowser
    \/ IfServer
    \/ WaitLoopTest
    \/ WaitCheck
    \/ WaitSleep
    \/ ShutdownRequest
    \/ ShutdownReturns
    \/ ResultCheck
    \/ ManualEntry
    \/ AfterAuthorization
    \/ LlmTokenExchange
    \/ ExampleRegister
    \/ ExampleBuildUrl
    \/ ExampleInput
    \/ ExampleTokenExchange

ExchangeSpec == ExchangeInit /\ [][ExchangeNext]_vars


\* The base64url alphabet of RFC 4648 (table 2), by value + 1.
Base64UrlChars ==
    << "A", "B", "C", "D", "E", "F", "G", "H", "I", "J", "K", "L", "M",
       "N", "O", "P", "Q", "R", "S", "T", "U", "V", "W", "X", "Y", "Z",
       "a", "b", "c", "d", "e", "f", "g", "h", "i", "j", "k", "l", "m",
       "n", "o", "p", "q", "r", "s", "t", "u", "v", "w", "x", "y", "z",
       "0", "1", "2", "3", "4", "5", "6", "7", "8", "9", "-", "_" >>

\* The characters [A-Za-z0-9_-].
VerifierAlphabet == { Base64UrlChars[i] : i \in 1..64 }

\* The bits of a byte string, most significant bit first.
RECURSIVE Bits(_)
Bits(bs) ==
    IF bs = << >> THEN << >>
    ELSE [k \in 1..8 |-> (Head(bs) \div (2 ^ (8 - k))) % 2] \o Bits(Tail(bs))

\* base64url without padding, as RFC 4648 defines it: the bits taken six
\* at a time, the last group filled with zero bits.
Base64UrlNoPad(bs) ==
    LET bits == Bits(bs)
        bit(k) == IF k <= Len(bits) THEN bits[k] ELSE 0
        sextet(c) == 32 * bit(6 * c - 5) + 16 * bit(6 * c - 4) + 8 * bit(6 * c - 3)
                     + 4 * bit(6 * c - 2) + 2 * bit(6 * c - 1) + bit(6 * c)
    IN  [c \in 1..((Len(bits) + 5) \div 6) |-> Base64UrlChars[sextet(c) + 1]]

\* generate_pkce has returned.
PkceGenerated == pkce.method /= None

\* C21: every PKCE triple generate_pkce returned has a challenge equal to
\* the unpadded base64url encoding of the SHA-256 digest of the verifier,
\* a verifier of at least 43 characters of [A-Za-z0-9_-] (so without the
\* padding character), and the method "S256".
C21_PkceTriple ==
    PkceGenerated =>
        /\ pkce.challenge = Base64UrlNoPad(sha256(encode(pkce.verifier)))
        /\ Len(pkce.verifier) >= 43
        /\ \A i \in 1..Len(pkce.verifier) : pkce.verifier[i] \in VerifierAlphabet
        /\ pkce.method = "S256"

\* A triple was generated from random bytes whose encoding uses both
\* characters that set base64url apart from base64.
C21_Witness ==
    /\ PkceGenerated
    /\ \E i \in 1..Len(pkce.verifier) : pkce.verifier[i] = "_"
    /\ \E i \in 1..Len(pkce.verifier) : pkce.verifier[i] = "-"

\* The scope the registration and authorization functions are called
\* with: "llm" removes surrounding blanks first (line 543), "example"
\* passes the argument as given (lines 297, 329).
ScopeSupplied == IF script = "llm" THEN Strip(scope) ELSE scope

\* The request carries the key "scope" exactly when the supplied scope is
\* not empty, and then with the supplied value.
ScopeKeyAsSupplied(request) ==
    /\ ("scope" \in DOMAIN request) <=> (ScopeSupplied /= "")
    /\ ("scope" \in DOMAIN request) => request["scope"] = ScopeSupplied

\* C22: the registration payload and the authorization URL carry the scope
\* parameter if and only if the supplied scope is non-empty; with an empty
\* scope the key is absent, not sent as an empty string.
C22_ScopeOnlyIfNonEmpty ==
    /\ reg_request.sent => ScopeKeyAsSupplied(reg_request)
    /\ auth_request.sent => ScopeKeyAsSupplied(auth_request)

\* Both requests were built from an empty scope and carry no scope key.
C22_Witness ==
    /\ reg_request.sent /\ auth_request.sent
    /\ ScopeSupplied = ""
    /\ "scope" \notin DOMAIN reg_request
    /\ "scope" \notin DOMAIN auth_request

\* How many times a stage was invoked.
TimesInvoked(stage) == Cardinality({ i \in 1..Len(stages) : stages[i] = stage })

\* C23: no retries: in one run the registration request, the token request
\* and each probe request are sent at most once, whatever the responses.
C23_NoRetries ==
    \A stage \in {"registration", "token_exchange", "probe_oauth", "probe_api_key"} :
        TimesInvoked(stage) <= 1

\* A run ended after both probes were refused, each request sent once.
C23_Witness ==
    /\ pc = "done"
    /\ oauth_probe.kind = "http" /\ oauth_probe.status = 401
    /\ api_key_probe.kind = "http" /\ api_key_probe.status = 401
    /\ \A stage \in {"registration", "token_exchange", "probe_oauth", "probe_api_key"} :
        TimesInvoked(stage) = 1

\* C24: a failure to open the authorization URL in the browser is only a
\* warning: from there test_authorization goes on to the callback wait
\* when a listener is running and to manual entry when none is, without
\* ending and without an outcome, exactly as after a successful open.
C24_OpenFailureIsWarning ==
    [][ (pc \in {"browser_opened", "browser_warned"} /\ pc' /= pc)
          => ( /\ pc' = IF server = "serving" THEN "wait_loop" ELSE "manual"
               /\ exit_code' = -1
               /\ auth_outcome' = auth_outcome
               /\ auth_code' = auth_code ) ]_vars

\* webbrowser.open has raised, the warning was printed, and a listener is
\* running for the wait that follows.
C24_Witness == pc = "browser_warned" /\ server = "serving" /\ auth_outcome = "none"

\* C25: a request the listener handles that carries neither a code nor an
\* error parameter is answered with the failure page and leaves the stored
\* code and state as they were, whatever they were.
C25_OtherRequestKeepsSlot ==
    [][ (handled' = handled + 1 /\ ~answer'.code /\ ~answer'.error)
          => ( /\ answer'.page = "failure"
               /\ received_code' = received_code
               /\ received_state' = received_state ) ]_vars

\* Such a request was answered with the failure page while a code and a
\* state were stored.
C25_Witness ==
    /\ answer = [code |-> FALSE, error |-> FALSE, page |-> "failure"]
    /\ received_code \in Codes /\ received_state \in States

\* A step of the orchestrator's reset of the slot (lines 270-271).
ResetStep == pc \in {"reset_code", "reset_state"} /\ pc' /= pc

\* C26: the orchestrator's reset never erases a code that the listener of
\* the current flow has stored after start_callback_server returned.
C26_ResetKeepsCallback ==
    [][ (ResetStep /\ server = "serving" /\ received_code \in CodesOfThisFlow)
          => received_code' = received_code ]_vars

\* C27: a code the listener stored before the timeout of wait_for_callback
\* elapsed, the last polling interval included, is still looked at: when
\* the sleep during which it was stored ends, the loop goes round once
\* more (and so returns the code) instead of reporting the timeout.
C27_CodeBeforeDeadlineReturned ==
    [][ ( /\ pc = "wait_sleep" /\ pc' = "wait_loop"
          /\ elapsed < TimeoutTicks
          /\ ResultStored /\ received_code \in CodesOfThisFlow )
          => LoopContinues(elapsed') ]_vars

\* C28: whenever wait_for_callback returned a result that is not None,
\* the step of test_authorization that follows returns normally with the
\* code of that result as the authorization code; it does not raise.
C28_ResultReturnedWithoutRaise ==
    [][ (pc = "result_check" /\ pc' /= pc /\ result.tuple)
          => ( /\ pc' = "auth_returned"
               /\ auth_outcome' = "code_received"
               /\ auth_code' = result.code ) ]_vars

\* C29: in a run that reaches the token exchange, the code_verifier sent to
\* the token endpoint is the verifier whose challenge was sent in the
\* authorization URL, the client_id sent is the one the registration of
\* this run returned (and the one of the authorization URL), and the PKCE
\* triple, once generated, is never changed.
C29_VerifierMatchesChallenge ==
    /\ [](token_request.sent =>
            /\ auth_request.sent
            /\ auth_request.code_challenge
                 = Base64UrlNoPad(sha256(encode(token_request.code_verifier)))
            /\ auth_request.code_challenge_method = "S256"
            /\ token_request.client_id = Get(reg_response.body, "client_id")
            /\ token_request.client_id = auth_request.client_id)
    /\ [][PkceGenerated => pkce' = pkce]_vars

\* "llm" has sent the token request with a code the operator entered
\* after the wait timed out.
C29_Witness ==
    /\ script = "llm" /\ token_request.sent
    /\ auth_outcome = "code_entered" /\ server = "stopped"
    /\ token_request.code_verifier = pkce.verifier
    /\ token_request.client_id = "c1"

\* The pasted token is non-empty, starts with "eyJ", has exactly three
\* dot-separated parts, and its payload part decodes to JSON.
WellFormedToken(t) ==
    /\ ~t.blank
    /\ t.eyJ
    /\ t.parts = 3
    /\ t.padding_ok /\ t.payload \in {"object", "array"}

\* The authorize request failed: no answer, an error status, a body that
\* is not the JSON object expected, or `success` not true.
AuthorizeFailed(resp) ==
    \/ resp.kind = "neterr"
    \/ resp.kind = "http" /\ resp.status /= 200
    \/ resp.kind = "http" /\ resp.json /= "object"
    \/ resp.kind = "http" /\ ~("success" \in DOMAIN resp.body /\ resp.body.success)
    \/ resp.kind = "http" /\ ~("data" \in DOMAIN resp.body
                               /\ {"authorization_url", "state"} \subseteq DOMAIN resp.body.data)

\* C30: get_oauth_token returns a session token only if the pasted token is
\* well formed, and then returns that token; for every other pasted input
\* and for every failure of the authorize request the process has exited
\* with code 1 and no MCP request was sent; no MCP request is ever sent
\* without a returned token.
C30_TokenValidatedBeforeMcp ==
    /\ session_token /= NoPaste => (WellFormedToken(pasted) /\ session_token = pasted)
    /\ (pasted /= NoPaste /\ ~WellFormedToken(pasted))
         => (pc = "exit" /\ exit_code = 1 /\ session_token = NoPaste /\ mcp_requests = << >>)
    /\ AuthorizeFailed(authorize_response)
         => (pc = "exit" /\ exit_code = 1 /\ pasted = NoPaste /\ mcp_requests = << >>)
    /\ mcp_requests /= << >> => session_token /= NoPaste

\* A well-formed token was returned and both MCP requests were sent with it.
C30_Witness ==
    /\ script = "mcp"
    /\ session_token /= NoPaste /\ session_token = pasted
    /\ mcp_requests = << "tools/list", "tools/call" >>

=============================================================================
